---------------------------- MODULE Spec2Model ----------------------------
(***************************************************************************)
(* Model of src/cutfile.py: the batch video converter.                     *)
(*                                                                         *)
(*   VideoConverter.start_conversion  runs on a worker thread (one per     *)
(*                                    run), puts LogEvents and             *)
(*                                    ProgressEvents on two queues;        *)
(*   VideoConverterApp.*              handlers of the Tk main thread: the  *)
(*                                    start click, the cancel click, the   *)
(*                                    test click and the 100 ms tick       *)
(*                                    update_ui, which                     *)
(*                                    drains the queues and then asks      *)
(*                                    whether the thread is still alive.   *)
(*                                                                         *)
(* Handlers of the main thread never interleave with each other (ui_pc),   *)
(* but the worker thread interleaves with them between any two of its      *)
(* accesses to what the two threads share (each queue put, each read of    *)
(* the flag, each write of a counter, the end of the thread), between any  *)
(* two queue reads of update_ui and while test_ffmpeg waits for its        *)
(* process.                                                                *)
(***************************************************************************)
EXTENDS Naturals, Sequences, FiniteSets

\* ------------------------------------------------------------------ bounds

\* How many runs the driver starts in one behaviour.
MaxRuns == 2

\* How many clicks other than the accepted starts (a refused start, a
\* cancel, a test) the user makes in one behaviour, at any point of it.
MaxClicks == 1

\* How many directory entries the input tree holds at most (the first of Pool).
MaxEntries == 3

\* The same two bounds for the behaviours checked under fairness.
LiveRuns == 1

LiveEntries == 2

\* ------------------------------------------------------- program constants

\* log[:200], the excerpt of the diagnostic text put on the log queue.
DiagLimit == 200

\* maximum=100 of the progress bar, and the value update_ui forces at the end.
ProgressMax == 100

Runs == 1..MaxRuns

Min(a, b) == IF a <= b THEN a ELSE b

\* ------------------------------------------------------------- file names
\* A file name is a sequence of one-character strings, so that lower(),
\* endswith() and os.path.splitext() are computed, not assumed.

Lower(ch) ==
    CASE ch = "A" -> "a"
      [] ch = "V" -> "v"
      [] ch = "I" -> "i"
      [] ch = "M" -> "m"
      [] ch = "P" -> "p"
      [] ch = "G" -> "g"
      [] OTHER -> ch

LowerName(s) == [k \in 1..Len(s) |-> Lower(s[k])]

EndsWith(s, suffix) ==
    /\ Len(suffix) <= Len(s)
    /\ SubSeq(s, Len(s) - Len(suffix) + 1, Len(s)) = suffix

\* any(file.lower().endswith(ext) for ext in self.src_formats)
MatchesFormats(name, src_formats) ==
    \E k \in 1..Len(src_formats) : EndsWith(LowerName(name), src_formats[k])

\* os.path.splitext(file): the extension starts at the last dot, unless only
\* dots precede it (a leading dot is part of the stem).
LastDot(s) ==
    IF \E k \in 1..Len(s) : s[k] = "."
      THEN CHOOSE k \in 1..Len(s) :
             /\ s[k] = "."
             /\ \A j \in (k+1)..Len(s) : s[j] # "."
      ELSE 0

Splitext(s) ==
    LET d == LastDot(s) IN
    IF d = 0 \/ (\A j \in 1..(d-1) : s[j] = ".")
      THEN <<s, <<>>>>
      ELSE <<SubSeq(s, 1, d-1), SubSeq(s, d, Len(s))>>

\* os.path.splitext(file)[0] + self.dst_format
OutputFile(file, dst_format) == Splitext(file)[1] \o dst_format

ExtMpg == <<".", "m", "p", "g">>
ExtAvi == <<".", "a", "v", "i">>
ExtMp4 == <<".", "m", "p", "4">>

\* The checkboxes ticked by default: '.mpg' and '.avi', in dict order.
DefaultSrcFormats == <<ExtMpg, ExtAvi>>

\* dst_format = tk.StringVar(value=".mp4")
DefaultDstFormat == ExtMp4

\* ------------------------------------------------------------- file system
\* The entries the input tree may hold.  dir is the path of the containing
\* directory relative to input_dir (<<>> is input_dir itself).
Pool ==
    << [dir |-> <<>>,      name |-> <<"b", ".", "t", "x", "t">>],
       [dir |-> <<>>,      name |-> <<"a", ".", "m", "p", "g">>],
       [dir |-> <<"sub">>, name |-> <<"c", ".", "A", "V", "I">>],
       [dir |-> <<"sub">>, name |-> <<"d", ".", "m", "p", "g">>],
       [dir |-> <<"sub">>, name |-> <<"e", ".", "M", "P", "G">>] >>

\* The trees a behaviour may start with, each the set of its entries: the
\* empty directory, a directory holding no video, and the one holding the
\* most entries.
Trees == { {Pool[k] : k \in 1..n} : n \in {0, 1, Min(MaxEntries, Len(Pool))} }

\* The directories of a tree: input_dir itself and those its entries are in.
Dirs(entries) == {<<>>} \cup {e.dir : e \in entries}

\* What a walk sees of a tree of which only the directories in listable can
\* be listed: nothing when input_dir itself cannot, and otherwise the
\* entries of the directories that can (os.walk, line 28, is called without
\* onerror: it skips a directory whose listing fails and goes on).
Seen(entries, listable) ==
    IF <<>> \in listable THEN {e \in entries : e.dir \in listable} ELSE {}

\* The listings os.walk can report of what it sees: top-down, the files of
\* input_dir before those of its subdirectory, and inside one directory in
\* whatever order the file system gives them.  os.listdir reports the
\* entries of input_dir alone, in any order too.
Listings(entries) ==
    LET n == Cardinality(entries) IN
    { listing \in [1..n -> entries] :
        /\ \A j, k \in 1..n : j # k => listing[j] # listing[k]
        /\ \A j, k \in 1..n :
             j < k => Len(listing[j].dir) <= Len(listing[k].dir) }

\* VideoConverter.get_video_files: (root, file) pairs in listing order; the
\* whole subtree when preserve_structure, else only the immediate contents
\* of input_dir.
get_video_files(listing, preserve_structure, src_formats) ==
    LET Wanted(e) ==
          /\ MatchesFormats(e.name, src_formats)
          /\ (preserve_structure \/ e.dir = <<>>)
    IN SelectSeq(listing, Wanted)

\* int((processed / total) * 100): the float quotient truncated.  It equals
\* the integer floor for every total below 50 (29/50 is the first pair where
\* the float product falls short), which covers every tree of this model.
Percent(processed, total) == (processed * 100) \div total


\* ------------------------------------------------------------------- state

VARIABLES
    tree,      \* the input directory's contents (environment)
    conv,      \* conv[r]: the VideoConverter object of run r, with its history
    worker,    \* worker[r]: the thread running conv[r].start_conversion
    app,       \* the VideoConverterApp's widgets and references
    ui_pc,     \* where the Tk main thread is inside a handler ("idle": in mainloop)
    nruns,     \* how many VideoConverter objects have been constructed
    nclicks    \* how many clicks but accepted starts the user has made

vars == <<tree, conv, worker, app, ui_pc, nruns, nclicks>>

\* VideoConverter.__init__ with no request yet: the slot of a run not started
\* (or of an object no longer referenced by anything).
BlankConverter ==
    [ preserve_structure |-> TRUE,
      src_formats        |-> <<>>,
      dst_format         |-> <<>>,
      cancel_flag        |-> FALSE,
      log_queue          |-> <<>>,
      progress_queue     |-> <<>>,
      total_files        |-> 0,
      processed_files    |-> 0,
      \* history (not program state): every put in order with the context that
      \* made it, every encoder result, and the worker's counts at cancel()
      produced_log       |-> <<>>,
      produced_progress  |-> <<>>,
      outcomes           |-> <<>>,
      cancel_snap        |-> <<>> ]

\* VideoConverter.__init__, lines 11-22
\* VideoConverter(...): a new instance
NewConverter(preserve_structure, src_formats, dst_format) ==
    [ BlankConverter EXCEPT !.preserve_structure = preserve_structure,
                            !.src_formats = src_formats,
                            !.dst_format = dst_format ]

\* The worker thread's position and locals.  pc names the block of
\* start_conversion the thread is in and step how far it is in that block.
\* returned is what convert_video returned, cancelled what line 166 read.
\* proc is the child process of the
\* invocation in flight: empty until the process has ended (or failed to
\* start), then the one-element sequence of what became of it.  made is the
\* set of directories os.makedirs has been asked for, successfully, and
\* invoked the (input_path, output_path) pairs convert_video was called with.
BlankWorker ==
    [ pc |-> "none", step |-> 0, video_files |-> <<>>, i |-> 0,
      returned |-> <<>>, cancelled |-> FALSE,
      input_path |-> <<>>, output_path |-> <<>>, cmd |-> <<>>,
      proc |-> <<>>, made |-> {}, invoked |-> <<>> ]

\* self.log_queue.put(m) for each m of msgs, made by context ctx
LogPut(c, ctx, msgs) ==
    [ c EXCEPT !.log_queue = @ \o msgs,
               !.produced_log = @ \o [k \in 1..Len(msgs) |-> <<ctx, msgs[k]>>] ]

\* self.progress_queue.put((processed, total, label))
ProgressPut(c, label) ==
    LET ev == <<c.processed_files, c.total_files, label>> IN
    [ c EXCEPT !.progress_queue = Append(@, ev),
               !.produced_progress = Append(@, ev) ]

\* Faulty variant, which C9 must reject: every thread is taken for ended.
is_alive_never(r) == FALSE

\* The thread object's is_alive(): started and start_conversion not yet left,
\* neither by returning nor by an exception.
is_alive(r) == worker[r].pc \notin {"none", "done", "crashed"}

\* What the runtime knows (the model's own view of the same fact).
Running(r) == worker[r].pc \notin {"none", "done", "crashed"}

\* VideoConverterApp.__init__ has returned and the main loop runs: nothing
\* was started yet.
Constructed ==
    /\ conv = [r \in Runs |-> BlankConverter]
    /\ worker = [r \in Runs |-> BlankWorker]
    /\ app = [ convert_btn         |-> "normal",
               cancel_btn          |-> "disabled",
               progress_var        |-> 0,
               progress_label      |-> <<"ready">>,
               status_var          |-> <<"ready">>,
               log_text            |-> <<>>,
               got_progress        |-> <<>>,
               warning             |-> <<>>,
               started_with        |-> <<>>,
               converter           |-> 0,
               conversion_thread   |-> 0 ]
    /\ ui_pc = "idle"
    /\ nruns = 0
    /\ nclicks = 0

Init == tree \in Trees /\ Constructed

\* ----------------------------------------------------- the worker thread
\* VideoConverter.start_conversion, in steps between which the main thread
\* may run.

\* lines 113-119: the seven header lines
HeaderLines(c) ==
    << <<"banner">>, <<"input_dir">>, <<"output_dir">>,
       <<"src_formats", c.src_formats>>, <<"dst_format", c.dst_format>>,
       <<"preserve", c.preserve_structure>>, <<"dashes">> >>

\* one log_queue.put per step
W_Begin(r) ==
    /\ worker[r].pc = "begin"
    /\ LET k == worker[r].step + 1 IN
       /\ conv' = [conv EXCEPT ![r] =
                     LogPut(@, "worker", <<HeaderLines(@)[k]>>)]
       /\ worker' = IF k = Len(HeaderLines(conv[r]))
                      THEN [worker EXCEPT ![r].pc = "enumerate", ![r].step = 0]
                      ELSE [worker EXCEPT ![r].step = k]
    /\ UNCHANGED <<tree, app, ui_pc, nruns, nclicks>>

\* Faulty variant, which C5 must reject: no empty-enumeration branch.
NothingToConvert_never(total) == FALSE

\* if self.total_files == 0
NothingToConvert(total) == total = 0

\* Faulty variant, which C12 must reject: the count of the enumeration is
\* never taken.
CountFiles_never(files) == 0

\* line 122: self.total_files = len(video_files)
CountFiles(files) == Len(files)

\* lines 121-123: enumerate, in the order the file system lists the tree
\* at this moment, and count.  os.walk leaves out a directory it cannot
\* list; os.listdir (flat mode) raises OSError when input_dir cannot be
\* listed, and nothing in start_conversion catches it: the thread dies.
W_Enumerate(r) ==
    /\ worker[r].pc = "enumerate"
    /\ \E listable \in SUBSET Dirs(tree) :
       \E listing \in Listings(Seen(tree, listable)) :
         IF conv[r].preserve_structure \/ <<>> \in listable
           THEN LET files == get_video_files(listing,
                                             conv[r].preserve_structure,
                                             conv[r].src_formats)
                IN /\ conv' = [conv EXCEPT
                         ![r].total_files = CountFiles(files),
                         ![r].processed_files = 0]
                   /\ worker' = [worker EXCEPT
                         ![r].video_files = files,
                         ![r].pc = IF NothingToConvert(CountFiles(files))
                                     THEN "nofiles" ELSE "check"]
           ELSE /\ worker' = [worker EXCEPT ![r].pc = "crashed"]
                /\ UNCHANGED conv
    /\ UNCHANGED <<tree, app, ui_pc, nruns, nclicks>>

\* lines 125-127: the log put, then the progress put
W_NoFiles(r) ==
    /\ worker[r].pc = "nofiles"
    /\ IF worker[r].step = 0
         THEN /\ conv' = [conv EXCEPT ![r] =
                            LogPut(@, "worker", << <<"no_files">> >>)]
              /\ worker' = [worker EXCEPT ![r].step = 1]
         ELSE /\ conv' = [conv EXCEPT ![r] = ProgressPut(@, <<"nothing">>)]
              /\ worker' = [worker EXCEPT ![r].pc = "return", ![r].step = 0]
    /\ UNCHANGED <<tree, app, ui_pc, nruns, nclicks>>

\* line 128, and the end of the function after 168 or 172: start_conversion
\* returns and the thread ends
W_Return(r) ==
    /\ worker[r].pc = "return"
    /\ worker' = [worker EXCEPT ![r].pc = "done"]
    /\ UNCHANGED <<tree, conv, app, ui_pc, nruns, nclicks>>

\* Faulty variant, which C7 must reject: the loop never looks at the flag.
LoopCancelled_never(c) == FALSE

\* line 131: if self.cancel_flag
LoopCancelled(c) == c.cancel_flag

\* Faulty variant, which C19 must reject: the loop does not end with the
\* enumeration.
LoopExhausted_never(w) == FALSE

\* line 130: the for statement has no further file
LoopExhausted(w) == w.i = Len(w.video_files)

\* lines 130-133: the for statement takes the next file, or ends; the flag is
\* read only when there is a next file, and when it is set the line of 132 is
\* put in a step of its own.
W_Check(r) ==
    /\ worker[r].pc = "check"
    /\ IF worker[r].step = 1
         THEN /\ conv' = [conv EXCEPT ![r] =
                            LogPut(@, "worker", << <<"cancel_break">> >>)]
              /\ worker' = [worker EXCEPT ![r].pc = "finish", ![r].step = 0]
         ELSE IF LoopExhausted(worker[r])
           THEN /\ worker' = [worker EXCEPT ![r].pc = "finish"]
                /\ UNCHANGED conv
         ELSE IF LoopCancelled(conv[r])
           THEN /\ worker' = [worker EXCEPT ![r].step = 1]
                /\ UNCHANGED conv
           ELSE /\ worker' = [worker EXCEPT ![r].pc = "prepare", ![r].i = @ + 1]
                /\ UNCHANGED conv
    /\ UNCHANGED <<tree, app, ui_pc, nruns, nclicks>>

\* Paths are sequences of components; the request's directories and encoder.
InputDir == <<"in">>

OutputDir == <<"out">>

FfmpegPath == "ffmpeg"

\* os.path.join(a, b) for a relative b
Join(a, b) == a \o b

\* os.path.relpath(root, input_dir) for a root that os.walk reached from
\* input_dir: the components below input_dir, "." for input_dir itself
RelPath(root, input_dir) ==
    IF Len(root) = Len(input_dir)
      THEN <<".">>
      ELSE SubSeq(root, Len(input_dir) + 1, Len(root))

\* lines 135-146: where the converted file goes, and the directory that has
\* to be made for it (none in flat mode)
\* Faulty variant, which C14 must reject: the source's directories are not
\* mirrored.
OutputSubdir_flat(entry, preserve_structure) == OutputDir

OutputSubdir(entry, preserve_structure) ==
    IF preserve_structure
      THEN Join(OutputDir, RelPath(Join(InputDir, entry.dir), InputDir))
      ELSE OutputDir

OutputPath(entry, preserve_structure, dst_format) ==
    Join(OutputSubdir(entry, preserve_structure),
         <<OutputFile(entry.name, dst_format)>>)

\* lines 42-95: the encoder's parameters, by destination extension
ExtWebm == <<".", "w", "e", "b", "m">>

ExtMov == <<".", "m", "o", "v">>

ExtMkv == <<".", "m", "k", "v">>

ExtFlv == <<".", "f", "l", "v">>

\* Faulty variant, which C16 must reject: .mkv given an encoding row of its
\* own instead of the stream copy.
EncoderParams_mkv(dst_format) ==
    IF dst_format = ExtMkv
      THEN <<"-c:v", "libx264", "-crf", "23", "-c:a", "aac">>
      ELSE <<"-c", "copy">>

EncoderParams(dst_format) ==
    IF dst_format = ExtMp4
      THEN <<"-c:v", "libx264", "-crf", "23", "-preset", "medium",
             "-c:a", "aac", "-b:a", "128k">>
    ELSE IF dst_format = ExtWebm
      THEN <<"-c:v", "libvpx-vp9", "-crf", "30", "-b:v", "0",
             "-c:a", "libopus", "-b:a", "128k">>
    ELSE IF dst_format = ExtAvi
      THEN <<"-c:v", "mpeg4", "-q:v", "3", "-c:a", "mp3", "-b:a", "128k">>
    ELSE IF dst_format = ExtMov
      THEN <<"-c:v", "h264", "-crf", "23", "-c:a", "aac", "-b:a", "128k">>
    ELSE <<"-c", "copy">>

BuildCmd(dst_format, input_path, output_path) ==
    <<FfmpegPath, "-i", input_path>> \o EncoderParams(dst_format)
        \o <<"-y", output_path>>

\* lines 135-153: resolve the output path (os.makedirs of the mirrored
\* directory when preserving the structure, which raises OSError when the
\* directory cannot be made: uncaught, the thread dies) and put the log line
\* of 149; then, in a second step, put the event of 150 and enter
\* convert_video, which builds the command and calls subprocess.run.
W_Prepare(r) ==
    /\ worker[r].pc = "prepare"
    /\ LET entry == worker[r].video_files[worker[r].i]
           file == entry.name
           output_file == OutputFile(file, conv[r].dst_format)
           input_path == Join(Join(InputDir, entry.dir), <<file>>)
           output_path == OutputPath(entry, conv[r].preserve_structure,
                                     conv[r].dst_format)
       IN IF worker[r].step = 0
            THEN \E made \in BOOLEAN :
                   /\ (~conv[r].preserve_structure => made)
                   /\ IF made
                        THEN /\ conv' = [conv EXCEPT ![r] =
                                   LogPut(@, "worker",
                                     << <<"converting", file, output_file>> >>)]
                             /\ worker' = [worker EXCEPT
                                   ![r].step = 1,
                                   ![r].input_path = input_path,
                                   ![r].output_path = output_path,
                                   ![r].made = IF conv[r].preserve_structure
                                       THEN @ \cup {OutputSubdir(entry, TRUE)}
                                       ELSE @]
                        ELSE /\ worker' = [worker EXCEPT ![r].pc = "crashed"]
                             /\ UNCHANGED conv
            ELSE /\ conv' = [conv EXCEPT ![r] =
                               ProgressPut(@, <<"processing", file>>)]
                 /\ worker' = [worker EXCEPT
                       ![r].pc = "invoking",
                       ![r].step = 0,
                       ![r].cmd = BuildCmd(conv[r].dst_format,
                                           input_path, output_path),
                       ![r].proc = <<>>,
                       ![r].invoked = Append(@,
                           [input_path |-> input_path,
                            output_path |-> output_path])]
    /\ UNCHANGED <<tree, app, ui_pc, nruns, nclicks>>

\* A diagnostic text is told by whether it fits in DiagLimit characters
\* ("within", the empty text included) or not ("beyond").
DiagClasses == {"within", "beyond"}

\* What can become of one subprocess.run call: the process could not be
\* started (no exit status then: exit_code is not looked at), or it ran and
\* exited with exit_code, and its stderr could or could not be decoded as
\* text.  diag is the class of the text convert_video ends up with: stderr,
\* of any length, or the exception's message (that of UnicodeDecodeError
\* names a codec, a byte and a position: it always fits; that of OSError
\* holds the encoder's path, of any length).
EncoderResults ==
    [launched : {TRUE}, exit_code : {0, 1}, decodable : {TRUE},
     diag : DiagClasses]
    \cup [launched : {TRUE}, exit_code : {0, 1}, decodable : {FALSE},
          diag : {"within"}]
    \cup [launched : {FALSE}, exit_code : {1}, decodable : {TRUE},
          diag : DiagClasses]

\* The child process ends, or the attempt to start it fails: subprocess.run
\* is about to come back.
EncoderExit(r) ==
    /\ worker[r].pc = "invoking"
    /\ worker[r].proc = <<>>
    /\ \E res \in EncoderResults :
         worker' = [worker EXCEPT ![r].proc = <<res>>]
    /\ UNCHANGED <<tree, conv, app, ui_pc, nruns, nclicks>>

\* lines 97-109: <<success, class of the diagnostic text>>.
\*   OSError from Popen (not started)        -> except Exception: False, str(e)
\*   UnicodeDecodeError reading stderr       -> except Exception: False, str(e)
\*   CalledProcessError (check=True, exit#0) -> False, e.stderr
\*   otherwise                               -> True, result.stderr
convert_video(res) ==
    IF ~res.launched THEN <<FALSE, res.diag>>
    ELSE IF ~res.decodable THEN <<FALSE, res.diag>>
    ELSE IF res.exit_code # 0 THEN <<FALSE, res.diag>>
    ELSE <<TRUE, res.diag>>

\* log[:200], line 159: the whole text, or its first DiagLimit characters
Excerpt(diag) ==
    IF diag = "beyond" THEN <<"first", DiagLimit>> ELSE <<"whole">>

\* lines 155-159: the result lines
ResultLines(file, success, diag) ==
    IF success
      THEN << <<"ok", file>> >>
      ELSE << <<"failed", file>>, <<"error", Excerpt(diag)>> >>

\* lines 153-164, one access per step: convert_video returns (it never
\* raises) and the result line of 156 or 158 is put; after a failure the
\* excerpt of 159 is put; the file is counted (161); the event of 164 is put.
W_Result(r) ==
    /\ LET file == worker[r].video_files[worker[r].i].name IN
       \/ /\ worker[r].pc = "invoking"
          /\ worker[r].proc # <<>>
          /\ LET returned == convert_video(worker[r].proc[1])
                 lines == ResultLines(file, returned[1], returned[2])
             IN /\ conv' = [conv EXCEPT ![r] =
                      [LogPut(@, "worker", <<lines[1]>>) EXCEPT
                          !.outcomes = Append(@, returned[1])]]
                /\ worker' = [worker EXCEPT
                      ![r].pc = "result",
                      ![r].step = IF returned[1] THEN 2 ELSE 1,
                      ![r].returned = returned,
                      ![r].proc = <<>>]
       \/ /\ worker[r].pc = "result"
          /\ worker[r].step = 1
          /\ LET returned == worker[r].returned
                 lines == ResultLines(file, returned[1], returned[2])
             IN conv' = [conv EXCEPT ![r] = LogPut(@, "worker", <<lines[2]>>)]
          /\ worker' = [worker EXCEPT ![r].step = 2]
       \/ /\ worker[r].pc = "result"
          /\ worker[r].step = 2
          /\ conv' = [conv EXCEPT ![r].processed_files = @ + 1]
          /\ worker' = [worker EXCEPT ![r].step = 3]
       \/ /\ worker[r].pc = "result"
          /\ worker[r].step = 3
          /\ conv' = [conv EXCEPT ![r] =
                ProgressPut(@,
                  <<"progress", @.processed_files, @.total_files,
                    Percent(@.processed_files, @.total_files)>>)]
          /\ worker' = [worker EXCEPT ![r].pc = "check", ![r].step = 0,
                                      ![r].returned = <<>>]
    /\ UNCHANGED <<tree, app, ui_pc, nruns, nclicks>>

\* Faulty variant, which C3 must reject: the end of run always reports
\* "completed".
FinishCancelled_never(c) == FALSE

\* line 166: if self.cancel_flag (read again after the loop)
FinishCancelled(c) == c.cancel_flag

\* lines 166-172, one access per step: the flag is read; then the line of
\* 167 and the event of 168, or the lines of 170 and 171 and the event of 172
W_Finish(r) ==
    /\ worker[r].pc = "finish"
    /\ LET step == worker[r].step
           last == IF worker[r].cancelled THEN 2 ELSE 3
       IN /\ conv' = [conv EXCEPT ![r] =
                IF step = 0 THEN @
                ELSE IF worker[r].cancelled
                  THEN IF step = 1
                         THEN LogPut(@, "worker", << <<"cancelled">> >>)
                         ELSE ProgressPut(@, <<"cancelled">>)
                ELSE IF step = 1
                  THEN LogPut(@, "worker", << <<"equals">> >>)
                ELSE IF step = 2
                  THEN LogPut(@, "worker",
                         << <<"summary", @.processed_files, @.total_files>> >>)
                ELSE ProgressPut(@, <<"completed">>)]
          /\ worker' =
                IF step = 0
                  THEN [worker EXCEPT ![r].step = 1,
                                      ![r].cancelled = FinishCancelled(conv[r])]
                ELSE IF step = last
                  THEN [worker EXCEPT ![r].pc = "return", ![r].step = 0]
                ELSE [worker EXCEPT ![r].step = step + 1]
    /\ UNCHANGED <<tree, app, ui_pc, nruns, nclicks>>

Worker(r) ==
    \/ W_Begin(r)
    \/ W_Enumerate(r)
    \/ W_NoFiles(r)
    \/ W_Return(r)
    \/ W_Check(r)
    \/ W_Prepare(r)
    \/ W_Result(r)
    \/ W_Finish(r)

\* ------------------------------------------------------- the main thread
\* VideoConverterApp: the handlers Tk runs one at a time.

\* What the start click reads from the widgets and the file system.
AllForms ==
    [ input_dir  : {"", "in"},
      output_dir : {"", "out"},
      ffmpeg_path: {"", "ffmpeg"},
      isdir      : BOOLEAN,          \* os.path.isdir(input_dir)
      isfile     : BOOLEAN,          \* os.path.isfile(ffmpeg_path)
      selected   : {<<>>, DefaultSrcFormats},
      dst_format : {DefaultDstFormat},
      preserve   : BOOLEAN ]

\* The checks a form fails.  The handler returns at the first failed check, so
\* a form failing several behaves as the form failing the first of them alone.
Defects(form) ==
    {d \in 1..6 :
       \/ d = 1 /\ form.input_dir = ""
       \/ d = 2 /\ form.output_dir = ""
       \/ d = 3 /\ form.ffmpeg_path = ""
       \/ d = 4 /\ ~form.isdir
       \/ d = 5 /\ ~form.isfile
       \/ d = 6 /\ form.selected = <<>>}

\* A refused form's other fields are never read: they stay at the defaults.
Forms ==
    {form \in AllForms :
       \/ Defects(form) = {}
       \/ Cardinality(Defects(form)) = 1 /\ form.preserve}

\* Faulty variant, which C15 must reject: the source formats are not checked.
Valid_any_formats(form) ==
    /\ form.input_dir # ""
    /\ form.output_dir # ""
    /\ form.ffmpeg_path # ""
    /\ form.isdir
    /\ form.isfile

\* lines 407-431: the six checks that return before anything is changed
Valid(form) ==
    /\ form.input_dir # ""
    /\ form.output_dir # ""
    /\ form.ffmpeg_path # ""
    /\ form.isdir
    /\ form.isfile
    /\ form.selected # <<>>

\* An object nothing refers to any more: its thread has ended and the app
\* has dropped (or replaced) its reference.
Garbage(r) == ~Running(r) /\ app.converter # r

\* lines 401-459 with valid input (and os.makedirs(output_dir) succeeding:
\* if it raises, the handler is left before anything is changed): reset the
\* widgets, construct a fresh
\* VideoConverter and start its thread.  The click reaches the handler only
\* while the start button is enabled.
AppStart(form) ==
    /\ ui_pc = "idle"
    /\ app.convert_btn = "normal"
    /\ nruns < MaxRuns
    /\ Valid(form)
    /\ LET new == nruns + 1 IN
       /\ conv' = [r \in Runs |->
                     IF r = new
                       THEN NewConverter(form.preserve, form.selected,
                                         form.dst_format)
                       ELSE IF Garbage(r) THEN BlankConverter ELSE conv[r]]
       /\ worker' = [r \in Runs |->
                     IF r = new
                       THEN [BlankWorker EXCEPT !.pc = "begin"]
                       ELSE IF Garbage(r) THEN BlankWorker ELSE worker[r]]
       /\ app' = [app EXCEPT !.log_text = <<>>,
                             !.progress_var = 0,
                             !.progress_label = <<"starting">>,
                             !.convert_btn = "disabled",
                             !.cancel_btn = "normal",
                             !.got_progress = <<>>,
                             !.started_with = <<form>>,
                             !.converter = new,
                             !.conversion_thread = new]
       /\ nruns' = new
    /\ UNCHANGED <<tree, ui_pc, nclicks>>

\* lines 401-431 with invalid input: messagebox.showwarning, a modal box that
\* keeps the handler until it is closed.  warning holds the form the box is
\* about.
AppStartRejected(form) ==
    /\ ui_pc = "idle"
    /\ app.convert_btn = "normal"
    /\ nclicks < MaxClicks
    /\ ~Valid(form)
    /\ app' = [app EXCEPT !.warning = <<form>>]
    /\ ui_pc' = "warning"
    /\ nclicks' = nclicks + 1
    /\ UNCHANGED <<tree, conv, worker, nruns>>

\* the box is closed: showwarning returns, and the handler with it
AppWarningClosed ==
    /\ ui_pc = "warning"
    /\ app' = [app EXCEPT !.warning = <<>>]
    /\ ui_pc' = "idle"
    /\ UNCHANGED <<tree, conv, worker, nruns, nclicks>>

\* Faulty variant, which C10 must reject: cancel() also resets the counter.
cancel_reset_counts(c) == [c EXCEPT !.cancel_flag = TRUE, !.processed_files = 0]

\* VideoConverter.cancel, line 176
cancel_set_flag(c) == [c EXCEPT !.cancel_flag = TRUE]

\* lines 461-463 and 176: the cancel click (the button is enabled) sets the
\* flag of the current converter.  The history keeps where the worker was.
AppCancel ==
    /\ ui_pc = "idle"
    /\ app.cancel_btn = "normal"
    /\ nclicks < MaxClicks
    /\ nclicks' = nclicks + 1
    /\ IF app.converter # 0
         THEN LET r == app.converter
                  snap == [ started   |-> worker[r].i,
                            processed |-> conv[r].processed_files,
                            pc        |-> worker[r].pc ]
              IN /\ conv' = [conv EXCEPT ![r] =
                       [cancel_set_flag(@) EXCEPT !.cancel_snap = <<snap>>]]
                 /\ ui_pc' = "cancel_put"
         ELSE UNCHANGED <<conv, ui_pc>>
    /\ UNCHANGED <<tree, worker, app, nruns>>

\* lines 177 and 464: cancel() puts its own line on the log queue, from the
\* main thread, and the cancel button is disabled.
AppCancelPut ==
    /\ ui_pc = "cancel_put"
    /\ conv' = [conv EXCEPT ![app.converter] =
                  LogPut(@, "control", << <<"cancelling">> >>)]
    /\ app' = [app EXCEPT !.cancel_btn = "disabled"]
    /\ ui_pc' = "idle"
    /\ UNCHANGED <<tree, worker, nruns, nclicks>>

\* What the test button writes on the log widget.
TestLines == { <<"test_ok">>, <<"test_failed">> }

\* lines 372-391: the test click, which the button takes at any time.  With
\* no path, or a path that is no file, a warning box is shown and closed, and
\* nothing of the program's state changes (the box runs the event loop, so
\* the tick keeps coming while it is shown).  Otherwise 'ffmpeg -version' is
\* run on the main thread, which waits in subprocess.run (no timeout) and
\* serves no click and no tick until that returns.
AppTestFfmpeg(ffmpeg_path, isfile) ==
    /\ ui_pc = "idle"
    /\ nclicks < MaxClicks
    /\ nclicks' = nclicks + 1
    /\ ui_pc' = IF ffmpeg_path = "" \/ ~isfile THEN "idle" ELSE "testing"
    /\ UNCHANGED <<tree, conv, worker, app, nruns>>

\* lines 384-399: subprocess.run returns or raises, and the handler writes
\* its verdict straight on the log widget (log_message, not the queue) and
\* on the status line: ok tells whether the encoder could be started, exited
\* with 0 and wrote text that could be decoded.
AppTestExit(ok) ==
    /\ ui_pc = "testing"
    /\ LET line == IF ok THEN <<"test_ok">> ELSE <<"test_failed">> IN
       app' = [app EXCEPT !.log_text = Append(@, line),
                          !.status_var = line]
    /\ ui_pc' = "idle"
    /\ UNCHANGED <<tree, conv, worker, nruns, nclicks>>

\* lines 476 and 507-508: a tick with no converter does nothing
UI_TickNoConverter ==
    /\ ui_pc = "idle"
    /\ app.converter = 0
    /\ UNCHANGED vars

\* lines 476-479: one test of the log queue, at the start of a tick with a
\* converter or after the line before: a line that is there goes to the log
\* widget, and the loop is left when there is none.
UI_DrainLog ==
    /\ \/ ui_pc = "idle" /\ app.converter # 0
       \/ ui_pc = "drain_log"
    /\ LET r == app.converter IN
       IF conv[r].log_queue # <<>>
         THEN /\ app' = [app EXCEPT
                           !.log_text = Append(@, Head(conv[r].log_queue))]
              /\ conv' = [conv EXCEPT ![r].log_queue = Tail(@)]
              /\ ui_pc' = "drain_log"
         ELSE /\ ui_pc' = "drain_progress"
              /\ UNCHANGED <<app, conv>>
    /\ UNCHANGED <<tree, worker, nruns, nclicks>>

\* lines 483-493 for one event
ShowProgress(a, ev) ==
    LET processed == ev[1]
        total == ev[2]
        message == ev[3]
        shown ==
          IF total > 0
            THEN [a EXCEPT
                   !.progress_var = Percent(processed, total),
                   !.progress_label = <<"counted", message, processed, total,
                                        Percent(processed, total)>>]
            ELSE [a EXCEPT !.progress_label = <<"plain", message>>]
    IN [shown EXCEPT !.status_var = message,
                     !.got_progress = Append(@, ev)]

\* lines 482-493: one test of the progress queue: an event that is there is
\* shown, and the loop is left when there is none.
UI_DrainProgress ==
    /\ ui_pc = "drain_progress"
    /\ LET r == app.converter IN
       IF conv[r].progress_queue # <<>>
         THEN /\ app' = ShowProgress(app, Head(conv[r].progress_queue))
              /\ conv' = [conv EXCEPT ![r].progress_queue = Tail(@)]
              /\ ui_pc' = "drain_progress"
         ELSE /\ ui_pc' = "check_alive"
              /\ UNCHANGED <<app, conv>>
    /\ UNCHANGED <<tree, worker, nruns, nclicks>>

\* lines 496-505: when the thread is seen ended, the buttons are switched
\* back, both references are dropped and the bar is forced to 100
UI_CheckAlive ==
    /\ ui_pc = "check_alive"
    /\ IF ~is_alive(app.conversion_thread)
         THEN app' = [app EXCEPT
                !.convert_btn = "normal",
                !.cancel_btn = "disabled",
                !.converter = 0,
                !.conversion_thread = 0,
                !.progress_var =
                    IF @ < ProgressMax THEN ProgressMax ELSE @,
                !.progress_label =
                    IF app.progress_var < ProgressMax THEN <<"finished">> ELSE @]
         ELSE UNCHANGED app
    /\ ui_pc' = "idle"
    /\ UNCHANGED <<tree, conv, worker, nruns, nclicks>>

Next ==
    \/ \E r \in Runs : Worker(r)
    \/ \E r \in Runs : EncoderExit(r)
    \/ \E form \in Forms : AppStart(form)
    \/ \E form \in Forms : AppStartRejected(form)
    \/ AppWarningClosed
    \/ AppCancel
    \/ AppCancelPut
    \/ \E ffmpeg_path \in {"", "ffmpeg"}, isfile \in BOOLEAN :
          AppTestFfmpeg(ffmpeg_path, isfile)
    \/ \E ok \in BOOLEAN : AppTestExit(ok)
    \/ UI_TickNoConverter
    \/ UI_DrainLog
    \/ UI_DrainProgress
    \/ UI_CheckAlive

Spec == Init /\ [][Next]_vars

\* The steps a thread that was started takes by itself.
WorkerStep == \E r \in Runs : Worker(r) \/ EncoderExit(r)

\* The steps the main thread takes without the user: the rest of a handler
\* that was entered, the encoder asked for its version returning, and the
\* 100 ms tick.
MainStep ==
    \/ AppCancelPut
    \/ \E ok \in BOOLEAN : AppTestExit(ok)
    \/ UI_DrainLog
    \/ UI_DrainProgress
    \/ UI_CheckAlive

\* The behaviours checked under fairness: every step of the program, over
\* the smaller trees.
LiveTrees == { {Pool[k] : k \in 1..n} : n \in 0..Min(LiveEntries, Len(Pool)) }

LiveInit == tree \in LiveTrees /\ Constructed

\* Next, with the accepted starts bounded by LiveRuns.
LiveNext ==
    \/ \E r \in Runs : Worker(r)
    \/ \E r \in Runs : EncoderExit(r)
    \/ \E form \in Forms : nruns < LiveRuns /\ AppStart(form)
    \/ \E form \in Forms : AppStartRejected(form)
    \/ AppWarningClosed
    \/ AppCancel
    \/ AppCancelPut
    \/ \E ffmpeg_path \in {"", "ffmpeg"}, isfile \in BOOLEAN :
          AppTestFfmpeg(ffmpeg_path, isfile)
    \/ \E ok \in BOOLEAN : AppTestExit(ok)
    \/ UI_TickNoConverter
    \/ UI_DrainLog
    \/ UI_DrainProgress
    \/ UI_CheckAlive

\* The program under its scheduling: a started thread keeps running while it
\* has a step to take (at most one thread has, since a run is started only
\* after the one before was seen ended) and every encoder process ends or
\* fails to start, the one test_ffmpeg waits for included; a handler that
\* was entered runs to its end, and the 100 ms tick (root.after, re-armed at
\* the end of every update_ui) keeps coming.
LiveSpec ==
    LiveInit /\ [][LiveNext]_vars /\ WF_vars(WorkerStep) /\ WF_vars(MainStep)

\* ------------------------------------------- one run, every target format
\* A single run over every destination extension the radio buttons offer
\* (lines 278-279), and one they do not, as another caller of VideoConverter
\* may pass: the worker alone, from the state the start handler leaves.
ExtOgv == <<".", "o", "g", "v">>

DstFormats == {ExtMp4, ExtAvi, ExtMov, ExtWebm, ExtMkv, ExtFlv, ExtOgv}

FormatInit ==
    /\ tree \in Trees
    /\ \E preserve \in BOOLEAN, dst_format \in DstFormats :
         LET form == [ input_dir |-> "in", output_dir |-> "out",
                       ffmpeg_path |-> "ffmpeg", isdir |-> TRUE,
                       isfile |-> TRUE, selected |-> DefaultSrcFormats,
                       dst_format |-> dst_format, preserve |-> preserve ]
         IN /\ conv = [r \in Runs |->
                         IF r = 1
                           THEN NewConverter(preserve, form.selected, dst_format)
                           ELSE BlankConverter]
            /\ app = [ convert_btn         |-> "disabled",
                       cancel_btn          |-> "normal",
                       progress_var        |-> 0,
                       progress_label      |-> <<"starting">>,
                       status_var          |-> <<"ready">>,
                       log_text            |-> <<>>,
                       got_progress        |-> <<>>,
                       warning             |-> <<>>,
                       started_with        |-> <<form>>,
                       converter           |-> 1,
                       conversion_thread   |-> 1 ]
    /\ worker = [r \in Runs |->
                   IF r = 1 THEN [BlankWorker EXCEPT !.pc = "begin"]
                            ELSE BlankWorker]
    /\ ui_pc = "idle"
    /\ nruns = 1
    /\ nclicks = 1

FormatNext ==
    \/ \E r \in Runs : Worker(r)
    \/ \E r \in Runs : EncoderExit(r)

FormatSpec == FormatInit /\ [][FormatNext]_vars

\* --------------------------------------- one run, files of the same stem
\* A single run over a source tree whose files share a stem: in one
\* directory under two of the source extensions (.mpg and .avi are the two
\* selected by default, lines 257-266), in a subdirectory, and under an
\* extension in capitals; for every non-empty selection of the two
\* extensions and both structure modes.
ClashPool ==
    << [dir |-> <<>>,      name |-> <<"a", ".", "m", "p", "g">>],
       [dir |-> <<>>,      name |-> <<"a", ".", "a", "v", "i">>],
       [dir |-> <<"sub">>, name |-> <<"a", ".", "m", "p", "g">>],
       [dir |-> <<>>,      name |-> <<"a", ".", "M", "P", "G">>] >>

ClashTrees ==
    { {ClashPool[k] : k \in 1..n} : n \in 0..Min(MaxEntries, Len(ClashPool)) }

Selections == { <<ExtMpg>>, <<ExtAvi>>, DefaultSrcFormats }

ClashInit ==
    /\ tree \in ClashTrees
    /\ \E preserve \in BOOLEAN, selected \in Selections :
         LET form == [ input_dir |-> "in", output_dir |-> "out",
                       ffmpeg_path |-> "ffmpeg", isdir |-> TRUE,
                       isfile |-> TRUE, selected |-> selected,
                       dst_format |-> DefaultDstFormat, preserve |-> preserve ]
         IN /\ conv = [r \in Runs |->
                         IF r = 1
                           THEN NewConverter(preserve, selected,
                                             DefaultDstFormat)
                           ELSE BlankConverter]
            /\ app = [ convert_btn         |-> "disabled",
                       cancel_btn          |-> "normal",
                       progress_var        |-> 0,
                       progress_label      |-> <<"starting">>,
                       status_var          |-> <<"ready">>,
                       log_text            |-> <<>>,
                       got_progress        |-> <<>>,
                       warning             |-> <<>>,
                       started_with        |-> <<form>>,
                       converter           |-> 1,
                       conversion_thread   |-> 1 ]
    /\ worker = [r \in Runs |->
                   IF r = 1 THEN [BlankWorker EXCEPT !.pc = "begin"]
                            ELSE BlankWorker]
    /\ ui_pc = "idle"
    /\ nruns = 1
    /\ nclicks = 1

ClashSpec == ClashInit /\ [][FormatNext]_vars

\* ------------------------------------------------------------- the claims

Ended(r) == worker[r].pc \in {"done", "crashed"}

Last(seq) == seq[Len(seq)]

IsPrefix(a, b) == Len(a) <= Len(b) /\ SubSeq(b, 1, Len(a)) = a

\* The lines of a produced_log history, without the producing context
Lines(history) == [k \in 1..Len(history) |-> history[k][2]]

\* The lines of the log widget that came off the log queue: all but those
\* the test button wrote.
FromQueue(log_text) == SelectSeq(log_text, LAMBDA line : line \notin TestLines)

\* The lines the worker thread put
WorkerLines(c) ==
    LET ByWorker(e) == e[1] = "worker"
    IN Lines(SelectSeq(c.produced_log, ByWorker))

\* A ProgressEvent carrying one of the three terminal statuses
IsTerminal(ev) == ev[3][1] \in {"completed", "cancelled", "nothing"}

TerminalCount(c) ==
    Cardinality({k \in 1..Len(c.produced_progress) :
                   IsTerminal(c.produced_progress[k])})

FailureLines(c) ==
    Cardinality({k \in 1..Len(c.produced_log) :
                   c.produced_log[k][2][1] = "failed"})

FailedInvocations(c) ==
    Cardinality({k \in 1..Len(c.outcomes) : ~c.outcomes[k]})

\* C1 (as claimed; the code violates it).  What the consumer has received of
\* the current run is always, in order and without repetition, a prefix of
\* what was enqueued; and once the worker has returned and the consumer has
\* seen the thread ended and dropped its converter, it has received every
\* LogEvent and every ProgressEvent the run enqueued.
C1_EveryEventDelivered ==
    nruns > 0 =>
      LET c == conv[nruns] IN
      /\ IsPrefix(FromQueue(app.log_text), Lines(c.produced_log))
      /\ IsPrefix(app.got_progress, c.produced_progress)
      /\ (worker[nruns].pc = "done" /\ app.converter = 0 =>
            /\ FromQueue(app.log_text) = Lines(c.produced_log)
            /\ app.got_progress = c.produced_progress)

\* The flag was set while the worker was alive and before it made the
\* between-file check for the last file: fewer files than total had passed
\* the check when cancel() ran.
CancelledBeforeLastCheck(r) ==
    /\ conv[r].cancel_snap # <<>>
    /\ conv[r].cancel_snap[1].pc \notin {"done", "crashed"}
    /\ conv[r].cancel_snap[1].started < Len(worker[r].video_files)

\* C2 (as claimed; fails through the uncaught OSError of C6).  A run with
\* total_count > 0 whose flag was set before the check for the last file
\* ends with a last ProgressEvent "cancelled" whose processed_count is below
\* total_count.
C2_CancelBeforeLastCheckEndsCancelled ==
    \A r \in Runs :
      (Ended(r) /\ conv[r].total_files > 0 /\ CancelledBeforeLastCheck(r)) =>
        /\ conv[r].produced_progress # <<>>
        /\ Last(conv[r].produced_progress)[3] = <<"cancelled">>
        /\ Last(conv[r].produced_progress)[1] < Last(conv[r].produced_progress)[2]

\* C3.  Every ProgressEvent put on the progress queue has processed_count <=
\* total_count, and every "completed" event has processed_count = total_count.
C3_ProgressWithinTotal ==
    \A r \in Runs :
      \A k \in 1..Len(conv[r].produced_progress) :
        LET ev == conv[r].produced_progress[k] IN
        /\ ev[1] <= ev[2]
        /\ (ev[3] = <<"completed">> => ev[1] = ev[2])

\* C3's case: a run of two files, one of whose invocations failed, has put its
\* "completed" event.
C3_Witness ==
    \E r \in Runs :
      /\ conv[r].produced_progress # <<>>
      /\ Last(conv[r].produced_progress) = <<2, 2, <<"completed">>>>
      /\ FailedInvocations(conv[r]) = 1

\* C4 (as claimed; fails through the uncaught OSError of C6).  A run of n > 0
\* files that is never cancelled goes through all n files whatever the
\* encoder results: it ends "completed" with processed_count = n, and has one
\* failure log line per failed invocation.
C4_FailedInvocationNeverHalts ==
    \A r \in Runs :
      (Ended(r) /\ conv[r].total_files > 0 /\ ~conv[r].cancel_flag) =>
        /\ Len(conv[r].outcomes) = conv[r].total_files
        /\ conv[r].processed_files = conv[r].total_files
        /\ conv[r].produced_progress # <<>>
        /\ Last(conv[r].produced_progress) =
             <<conv[r].total_files, conv[r].total_files, <<"completed">>>>
        /\ FailureLines(conv[r]) = FailedInvocations(conv[r])

\* C5 as claimed: with zero matching files the run emits exactly one log line,
\* exactly one ProgressEvent (0, 0, nothing to convert), and invokes nothing.
C5_ExactlyOneLogLine ==
    \A r \in Runs :
      (worker[r].pc = "done" /\ conv[r].total_files = 0) =>
        /\ Len(WorkerLines(conv[r])) = 1
        /\ conv[r].produced_progress = << <<0, 0, <<"nothing">>>> >>
        /\ conv[r].outcomes = <<>>

\* C5 amended.  With zero matching files the worker emits the seven header
\* lines and then exactly one more log line ("no files"), exactly one
\* ProgressEvent, (0, 0, nothing to convert), and invokes no encoder.
C5_HeaderThenOneLogLine ==
    \A r \in Runs :
      (worker[r].pc = "done" /\ conv[r].total_files = 0) =>
        /\ WorkerLines(conv[r]) = HeaderLines(conv[r]) \o << <<"no_files">> >>
        /\ conv[r].produced_progress = << <<0, 0, <<"nothing">>>> >>
        /\ conv[r].outcomes = <<>>

\* C5's case: a run over a tree that holds a file, none matching in flat mode
\* or an empty tree, has returned.
C5_Witness ==
    \E r \in Runs :
      /\ worker[r].pc = "done"
      /\ conv[r].total_files = 0
      /\ worker[r].video_files = <<>>
      /\ Len(conv[r].produced_log) >= 8

\* C6 (as claimed; the code violates it).  A worker that has ended, however it
\* ended, has enqueued a terminal ProgressEvent as its last ProgressEvent.
C6_NoEndWithoutTerminalEvent ==
    \A r \in Runs :
      Ended(r) =>
        /\ conv[r].produced_progress # <<>>
        /\ IsTerminal(Last(conv[r].produced_progress))

\* C7.  Cancellation is cooperative.  With s the worker's position when
\* cancel() set the flag: no file passes the between-file check afterwards,
\* processed_count grows by at most one, and an invocation that was in flight
\* is not interrupted: once it has returned and the worker has reported it
\* (lines 155-164), its file is counted, its result line is on the log and its
\* post-increment ProgressEvent was put.
C7_CooperativeCancel ==
    \A r \in Runs :
      conv[r].cancel_snap # <<>> =>
        LET s == conv[r].cancel_snap[1]
            c == conv[r]
        IN /\ worker[r].i = s.started
           /\ c.processed_files <= s.processed + 1
           /\ (s.pc = "invoking" /\ worker[r].pc \notin {"invoking", "result"}) =>
                LET file == worker[r].video_files[s.started].name IN
                /\ c.processed_files = s.processed + 1
                /\ Len(c.outcomes) = s.processed + 1
                /\ \E k \in 1..Len(c.produced_log) :
                     c.produced_log[k] \in
                       { <<"worker", <<"ok", file>>>>,
                         <<"worker", <<"failed", file>>>> }
                /\ \E k \in 1..Len(c.produced_progress) :
                     c.produced_progress[k] =
                       << s.processed + 1, c.total_files,
                          <<"progress", s.processed + 1, c.total_files,
                            Percent(s.processed + 1, c.total_files)>> >>

\* C7's case: cancel() ran during the first invocation of a run of two files;
\* that invocation returned and the run ended with the second file not started.
C7_Witness ==
    \E r \in Runs :
      /\ conv[r].cancel_snap # <<>>
      /\ conv[r].cancel_snap[1].pc = "invoking"
      /\ conv[r].cancel_snap[1].started = 1
      /\ conv[r].total_files = 2
      /\ worker[r].pc = "done"
      /\ conv[r].processed_files = 1

\* C8 (as claimed; fails through the uncaught OSError of C6).  A run never
\* enqueues more than one terminal ProgressEvent, nothing is put on the
\* progress queue after it, and every run that has ended has enqueued one.
C8_ExactlyOneTerminalEventLast ==
    \A r \in Runs :
      /\ TerminalCount(conv[r]) <= 1
      /\ \A k \in 1..Len(conv[r].produced_progress) :
           IsTerminal(conv[r].produced_progress[k]) =>
             k = Len(conv[r].produced_progress)
      /\ (Ended(r) => TerminalCount(conv[r]) = 1)

\* C9.  At most one worker thread is alive and at most one encoder invocation
\* is in flight; and whenever the start control is enabled (the only state in
\* which a run can be started) no worker is alive and the consumer holds no
\* converter: it has observed the previous worker ended.
C9_OneWorkerOneInvocation ==
    /\ Cardinality({r \in Runs : Running(r)}) <= 1
    /\ Cardinality({r \in Runs : worker[r].pc = "invoking"}) <= 1
    /\ (app.convert_btn = "normal" =>
          /\ \A r \in Runs : ~Running(r)
          /\ app.converter = 0)

\* C9's case: a second run was started after the first ended, and its encoder
\* invocation is in flight.
C9_Witness ==
    /\ nruns = 2
    /\ worker[2].pc = "invoking"
    /\ app.convert_btn = "disabled"

\* C10 as claimed: every entry of the log queue is put by the worker.
C10_WorkerIsOnlyProducer ==
    \A r \in Runs :
      \A k \in 1..Len(conv[r].produced_log) :
        conv[r].produced_log[k][1] = "worker"

\* C10 amended.  A step of the main thread on an existing converter (any step
\* that is not a worker's and constructs nothing) puts nothing on the progress
\* queue, leaves the counters and the request alone, never clears the flag,
\* and puts at most the one line "cancelling" of cancel() on the log queue;
\* a step of a worker leaves the flag alone and puts only its own lines.
C10_ControlWritesFlagAndOneLine ==
    [][ \A r \in Runs :
          LET c == conv[r]
              d == conv'[r]
          IN /\ (worker' = worker /\ nruns' = nruns) =>
                  /\ d.produced_progress = c.produced_progress
                  /\ d.total_files = c.total_files
                  /\ d.processed_files = c.processed_files
                  /\ d.preserve_structure = c.preserve_structure
                  /\ d.src_formats = c.src_formats
                  /\ d.dst_format = c.dst_format
                  /\ (c.cancel_flag => d.cancel_flag)
                  /\ \/ d.produced_log = c.produced_log
                     \/ d.produced_log =
                          Append(c.produced_log, <<"control", <<"cancelling">>>>)
             /\ (worker'[r] # worker[r] /\ nruns' = nruns) =>
                  /\ d.cancel_flag = c.cancel_flag
                  /\ IsPrefix(c.produced_log, d.produced_log)
                  /\ \A k \in (Len(c.produced_log) + 1)..Len(d.produced_log) :
                       d.produced_log[k][1] = "worker"
      ]_vars

\* C10's case: cancel() has put its line on the log queue of a run that had
\* already counted a file.
C10_Witness ==
    \E r \in Runs :
      /\ conv[r].processed_files > 0
      /\ \E k \in 1..Len(conv[r].produced_log) :
           conv[r].produced_log[k] = <<"control", <<"cancelling">>>>

\* C11: convert_video never raises: every invocation comes back into the loop
\* with one outcome, which is success exactly when the encoder process was
\* started and exited with status 0, and a failure with a diagnostic text on
\* a failed start, a non-zero exit or any exception; the loop reports it,
\* counts the file and then goes on to its next between-file check.
C11_SuccessIffStartedAndExitZero ==
    [][\A r \in Runs :
         /\ (worker[r].pc = "invoking" /\ worker'[r].pc # "invoking") =>
               LET res == worker[r].proc[1]
                   success == Last(conv'[r].outcomes)
               IN /\ worker'[r].pc = "result"
                  /\ Len(conv'[r].outcomes) = Len(conv[r].outcomes) + 1
                  /\ worker'[r].returned = <<success, res.diag>>
                  /\ success <=> (res.launched /\ res.exit_code = 0)
         /\ (worker[r].pc = "result" /\ worker'[r].pc # "result") =>
               /\ worker'[r].pc = "check"
               /\ conv'[r].processed_files = Len(conv'[r].outcomes)
               /\ ~worker[r].returned[1] =>
                     Last(WorkerLines(conv[r])) =
                       <<"error", IF worker[r].returned[2] = "beyond"
                                    THEN <<"first", DiagLimit>>
                                    ELSE <<"whole">> >>
    ]_vars

\* C12: within one run the processed count of the ProgressEvents never
\* decreases, and every ProgressEvent carries the same total: the number of
\* files the run enumerated when it started.
C12_ProcessedMonotoneTotalFixed ==
    \A r \in Runs :
      LET pp == conv[r].produced_progress IN
      /\ \A k \in 1..(Len(pp) - 1) : pp[k][1] <= pp[k + 1][1]
      /\ \A k \in 1..Len(pp) : pp[k][2] = Len(worker[r].video_files)

\* a run of two files has put all its events, the last with both processed
C12_Witness ==
    \E r \in Runs :
      /\ Len(worker[r].video_files) = 2
      /\ Len(conv[r].produced_progress) >= 5
      /\ Last(conv[r].produced_progress)[1] = 2

\* What the status line can show that is not of an earlier run: its text
\* at construction, a test's verdict, the label of an event taken from the
\* run now followed.
OwnStatus ==
    {<<"ready">>} \cup TestLines
    \cup {app.got_progress[k][3] : k \in 1..Len(app.got_progress)}

\* C13: every run the start handler starts has an instance of its own, new
\* at the start (flag unset, counters zero, both queues empty, nothing
\* produced, nothing of it shown); the flag of an instance is set only by a
\* cancel request made on it while it is the latest run; whatever the
\* consumer has taken since the start was produced by the latest run, and
\* while a run is followed nothing on display is of an earlier run.
C13_FreshInstancePerRun ==
    /\ [][\A r \in Runs :
            ~conv[r].cancel_flag /\ conv'[r].cancel_flag =>
                r = nruns /\ app.converter = r /\ ui_pc' = "cancel_put"]_vars
    /\ [](nruns > 0 =>
            /\ IsPrefix(FromQueue(app.log_text),
                        Lines(conv[nruns].produced_log))
            /\ IsPrefix(app.got_progress, conv[nruns].produced_progress))
    /\ [][nruns' # nruns =>
            LET c == conv'[nruns'] IN
            /\ app'.converter = nruns'
            /\ worker'[nruns'].pc = "begin"
            /\ c.cancel_flag = FALSE
            /\ c.total_files = 0 /\ c.processed_files = 0
            /\ c.log_queue = <<>> /\ c.progress_queue = <<>>
            /\ c.produced_log = <<>> /\ c.produced_progress = <<>>
            /\ app'.log_text = <<>> /\ app'.got_progress = <<>>
       ]_vars
    /\ [](app.converter # 0 => app.status_var \in OwnStatus)

\* A path without its "." components (the same file)
NormPath(path) ==
    LET NotDot(x) == x # "." IN SelectSeq(path, NotDot)

\* name is stem plus an extension that starts at its last dot, and replaced
\* is the stem plus dst_format
ExtensionReplaced(name, dst_format, replaced) ==
    \E k \in 2..Len(name) :
      /\ name[k] = "."
      /\ \A j \in (k + 1)..Len(name) : name[j] # "."
      /\ replaced = SubSeq(name, 1, k - 1) \o dst_format

\* C14: when the encoder is invoked for a file found in directory D, the
\* output path is <output root>/<D relative to the input root>/<name with
\* its extension replaced by the destination extension> and that directory
\* has been made, when the structure is preserved; and <output root>/<name
\* with its extension replaced> in flat mode.
C14_DestinationPath ==
    \A r \in Runs :
      worker[r].pc = "invoking" =>
        LET entry == worker[r].video_files[worker[r].i]
            path == NormPath(worker[r].output_path)
            subdir == IF conv[r].preserve_structure
                        THEN OutputDir \o entry.dir ELSE OutputDir
        IN /\ Len(path) = Len(subdir) + 1
           /\ SubSeq(path, 1, Len(subdir)) = subdir
           /\ ExtensionReplaced(entry.name, conv[r].dst_format, Last(path))
           /\ conv[r].preserve_structure =>
                 \E d \in worker[r].made : NormPath(d) = subdir
           /\ worker[r].cmd[3] = InputDir \o entry.dir \o <<entry.name>>
           /\ Last(worker[r].cmd) = worker[r].output_path

\* the encoder is at work on a file of a subdirectory, structure preserved
C14_Witness ==
    \E r \in Runs :
      /\ worker[r].pc = "invoking"
      /\ conv[r].preserve_structure
      /\ worker[r].video_files[worker[r].i].dir # <<>>

\* One of the setup errors: the source directory unset or missing, the output
\* directory unset, the encoder unset or missing, no source format selected
SetupError(form) ==
    \/ form.input_dir = "" \/ ~form.isdir
    \/ form.output_dir = ""
    \/ form.ffmpeg_path = "" \/ ~form.isfile
    \/ form.selected = <<>>

\* C15: a start request with a setup error returns with a warning and without
\* a VideoConverter made, a thread started or the start and cancel buttons
\* changed; every run there is was started by a request without setup error.
C15_SetupErrorsStartNothing ==
    /\ [](nruns > 0 => ~SetupError(app.started_with[1]))
    /\ [](app.warning # <<>> => SetupError(app.warning[1]))
    /\ [][app.warning = <<>> /\ app'.warning # <<>> =>
            /\ conv' = conv /\ worker' = worker /\ nruns' = nruns
            /\ app'.converter = app.converter
            /\ app'.conversion_thread = app.conversion_thread
            /\ app'.convert_btn = app.convert_btn
            /\ app'.cancel_btn = app.cancel_btn
       ]_vars

\* after a first run, a start request without source formats is refused
C15_Witness ==
    /\ nruns = 1
    /\ app.warning # <<>>
    /\ app.warning[1].selected = <<>>
    /\ app.convert_btn = "normal"

\* The parameters between the input and "-y", by destination extension
ParamsTable(dst_format) ==
    CASE dst_format = <<".", "m", "p", "4">> ->
           <<"-c:v", "libx264", "-crf", "23", "-preset", "medium",
             "-c:a", "aac", "-b:a", "128k">>
      [] dst_format = <<".", "w", "e", "b", "m">> ->
           <<"-c:v", "libvpx-vp9", "-crf", "30", "-b:v", "0",
             "-c:a", "libopus", "-b:a", "128k">>
      [] dst_format = <<".", "a", "v", "i">> ->
           <<"-c:v", "mpeg4", "-q:v", "3", "-c:a", "mp3", "-b:a", "128k">>
      [] dst_format = <<".", "m", "o", "v">> ->
           <<"-c:v", "h264", "-crf", "23", "-c:a", "aac", "-b:a", "128k">>
      [] OTHER -> <<"-c", "copy">>

\* C16: the encoder's argument list is the executable, -i and the input path,
\* the parameters its destination extension has in the table (the stream
\* copy for every extension other than .mp4, .webm, .avi and .mov), then -y
\* and the output path: nothing else of the file or the run enters it.
C16_ArgumentsByDestinationFormat ==
    \A r \in Runs :
      worker[r].pc = "invoking" =>
        LET cmd == worker[r].cmd
            n == Len(cmd)
        IN /\ n >= 5
           /\ cmd[1] = "ffmpeg" /\ cmd[2] = "-i"
           /\ cmd[3] = worker[r].input_path
           /\ SubSeq(cmd, 4, n - 2) = ParamsTable(conv[r].dst_format)
           /\ cmd[n - 1] = "-y"
           /\ cmd[n] = worker[r].output_path

\* the encoder is at work for .mkv, with the seven-element stream copy command
C16_Witness ==
    \E r \in Runs :
      /\ worker[r].pc = "invoking"
      /\ conv[r].dst_format = <<".", "m", "k", "v">>
      /\ Len(worker[r].cmd) = 7

\* The worker has left a loop that took every file: no between-file check
\* saw the flag, and start_conversion has returned.
ReturnedFromExhaustedLoop(r) ==
    /\ worker[r].pc = "done"
    /\ Len(worker[r].video_files) > 0
    /\ worker[r].i = Len(worker[r].video_files)
    /\ \A k \in 1..Len(WorkerLines(conv[r])) :
         WorkerLines(conv[r])[k] # <<"cancel_break">>

EndsCompleted(r) ==
    LET c == conv[r]
        lines == WorkerLines(c)
    IN /\ Last(c.produced_progress) =
            <<c.total_files, c.total_files, <<"completed">> >>
       /\ Len(lines) >= 2
       /\ lines[Len(lines) - 1] = <<"equals">>
       /\ Last(lines) = <<"summary", c.total_files, c.total_files>>

\* C17: a run whose loop exhausted the enumeration ends completed, with the
\* summary line and the terminal event "completed", whenever the cancel
\* requests came.
C17_ExhaustedLoopEndsCompleted ==
    \A r \in Runs : ReturnedFromExhaustedLoop(r) => EndsCompleted(r)

\* The result lines ("ok" or "failed") among the worker's lines
ResultCount(c) ==
    Cardinality({k \in 1..Len(WorkerLines(c)) :
                   WorkerLines(c)[k][1] \in {"ok", "failed"}})

\* C18: while the encoder is invoked for the i-th file, the last log line of
\* the worker is that file's starting line, the ProgressEvents are 2i-1 and
\* the last of them carries processed = i-1; once the invocation is over, i
\* result lines have been put, the last one for this file, and 2i
\* ProgressEvents, the last with processed = i; and a run that has ended
\* after processing k of its files has put exactly 2k+1 ProgressEvents.
C18_PerFileOrderAndCount ==
    \A r \in Runs :
      LET c == conv[r]
          pp == c.produced_progress
          i == worker[r].i
          k == Len(c.outcomes)
      IN /\ worker[r].pc = "invoking" =>
              /\ Last(WorkerLines(c))[1] = "converting"
              /\ Last(WorkerLines(c))[2] = worker[r].video_files[i].name
              /\ Len(pp) = 2 * i - 1
              /\ Last(pp)[1] = i - 1
              /\ k = i - 1 /\ ResultCount(c) = i - 1
         /\ worker[r].pc = "check" /\ i > 0 =>
              /\ Last(WorkerLines(c))[1] \in {"ok", "error"}
              /\ k = i /\ ResultCount(c) = i
              /\ Len(pp) = 2 * i
              /\ Last(pp)[1] = i
         /\ Ended(r) /\ Len(worker[r].video_files) > 0 =>
              Len(pp) = 2 * k + 1

\* The consumer has seen the end of the run it was following.
ReportedFinished ==
    /\ app.converter = 0
    /\ app.convert_btn = "normal"
    /\ app.cancel_btn = "disabled"

EndSeenWithAllEvents ==
    /\ nruns > 0
    /\ Ended(nruns)
    /\ app.converter = 0
    /\ ui_pc = "idle"
    /\ conv[nruns].produced_progress # <<>>
    /\ IsTerminal(Last(conv[nruns].produced_progress))
    /\ app.got_progress = conv[nruns].produced_progress

\* C20: once the consumer has seen the worker ended, the bar and the progress
\* label are what the run's terminal ProgressEvent made them: a run that
\* ended "cancelled" short of its total, or with nothing to convert, is not
\* shown as 100 per cent or as finished.
C20_DisplayIsTerminalEvent ==
    EndSeenWithAllEvents =>
      LET ev == Last(conv[nruns].produced_progress)
          status == ev[3][1]
      IN /\ ev[2] > 0 =>
              /\ app.progress_var = (ev[1] * 100) \div ev[2]
              /\ app.progress_label[2] = ev[3]
         /\ ev[2] = 0 => app.progress_label = <<"plain", ev[3]>>
         /\ (status = "nothing" \/ (status = "cancelled" /\ ev[1] < ev[2])) =>
              /\ app.progress_var < ProgressMax
              /\ app.progress_label # <<"finished">>

\* C21: within one run, the invocations made for distinct source files have
\* distinct output paths: no file the run wrote is written again by a later
\* invocation of the same run.
C21_DistinctDestinations ==
    \A r \in Runs :
      LET invoked == worker[r].invoked IN
      \A j, k \in 1..Len(invoked) :
        invoked[j].input_path # invoked[k].input_path =>
          invoked[j].output_path # invoked[k].output_path

=============================================================================
